---- MODULE Spec2Model ----
(***************************************************************************)
(* fastreg/general.py: the DataLoader batching iterator, the maxlike       *)
(* optimizer (training, exact Hessian, finite-difference fallback,         *)
(* inversion) and the glm driver.                                          *)
(*                                                                         *)
(* Numbers computed by the user's objective (loss, gradient, Hessian) are  *)
(* kept symbolic: a value is a record naming the function that produced    *)
(* it, the batch it was evaluated on and the version of the parameter      *)
(* vector it was evaluated at (the number of updates applied so far).      *)
(***************************************************************************)
EXTENDS Integers, Sequences, FiniteSets, TLC

\* ------------------------------------------------------------------ bounds
MaxN == 5
MaxB == 3
MaxK == 2
MaxP == 1
MaxEpochs == 2
NumIters == 2

LearningRates == {1, 2}
StepOptions == {1, 2}

VARIABLES
    arg,        \* the call's arguments (glm / maxlike keyword arguments)
    data,       \* the DataLoader instance (its fields)
    iters,      \* SpecDL: the generators obtained from iter(data), by slot
    out,        \* SpecDL: the batches each generator has yielded so far
    it,         \* maxlike: the generator of the running `for ... in data`
    params,     \* maxlike: the parameter vector
    step,       \* maxlike: the local variable `step`
    diff,       \* maxlike: the gradient of the last training batch
    ep,         \* maxlike: the epoch index
    agg_loss,   \* maxlike: losses accumulated in the epoch
    agg_batch,  \* maxlike: batches counted in the epoch
    hess,       \* maxlike: the Hessian
    hess_rows,  \* maxlike: the finite-difference rows
    fd_diff,    \* maxlike: `diff = step*np.eye(K)` of the fallback
    sigma,      \* maxlike: the covariance
    reads,      \* glm.model: the parameter positions read by the last evaluation
    x_names,    \* glm: the reported names
    calls,      \* how often fg_fun, g_fun, h_fun, inv and param_table were called,
                \* how often fg_fun and h_fun raised, how many training passes
                \* over the batches ran to their end
    stdout,     \* the lines printed
    exc,        \* the exception in flight (caught or propagating)
    ret,        \* the value glm returned
    pc          \* the position in glm / maxlike

vars == <<arg, data, iters, out, it, params, step, diff, ep, agg_loss, agg_batch,
          hess, hess_rows, fd_diff, sigma, reads, x_names, calls, stdout, exc,
          ret, pc>>

mlvars == <<it, params, step, diff, ep, agg_loss, agg_batch, hess, hess_rows,
            fd_diff, sigma, reads, x_names, calls, stdout, exc, ret, pc>>

Min(a, b) == IF a < b THEN a ELSE b
Max(a, b) == IF a > b THEN a ELSE b

\* ------------------------------------------------- python sequence slicing
\* s[a:b] of a python sequence: negative indices count from the end, both
\* ends are clamped to the length.
PyIndex(i, n) == IF i < 0 THEN Max(i + n, 0) ELSE Min(i, n)

PySlice(s, a, b) ==
    LET lo == PyIndex(a, Len(s))
        hi == PyIndex(b, Len(s))
    IN  IF hi <= lo THEN <<>> ELSE SubSeq(s, lo + 1, hi)

\* s[a:]
PySliceFrom(s, a) == PySlice(s, a, Len(s))

\* ------------------------------------------------------- the design matrix
\* Record r of the dataset: label r, covariate row (r, 0, 0, ...).
LabelVec(N) == [r \in 1..N |-> r]
DenseRow(r, K) == [c \in 1..K |-> IF c = 1 THEN r ELSE 0]
DenseMat(N, K) == [r \in 1..N |-> DenseRow(r, K)]

\* A dense array, and a scipy.sparse matrix: its shape and its stored
\* (non-zero) entries.
DenseX(N, K) ==
    [sparse |-> FALSE, nrows |-> N, ncols |-> K, rows |-> DenseMat(N, K), nz |-> {}]

SparseX(N, K) ==
    [sparse |-> TRUE, nrows |-> N, ncols |-> K, rows |-> <<>>,
     nz |-> {e \in {<<r, c, DenseRow(r, K)[c]>> : r \in 1..N, c \in 1..K} : e[3] # 0}]

\* x[a:b, :]
SliceRows(x, a, b) ==
    LET lo == PyIndex(a, x.nrows)
        hi == PyIndex(b, x.nrows)
        n  == IF hi <= lo THEN 0 ELSE hi - lo
    IN  IF x.sparse
        THEN [x EXCEPT !.nrows = n,
                       !.nz = {<<e[1] - lo, e[2], e[3]>> :
                                 e \in {f \in x.nz : f[1] > lo /\ f[1] <= lo + n}}]
        ELSE [x EXCEPT !.nrows = n, !.rows = PySlice(x.rows, a, b)]

\* bx.toarray()
ToArray(x) ==
    [r \in 1..x.nrows |->
        [c \in 1..x.ncols |->
            IF \E e \in x.nz : e[1] = r /\ e[2] = c
            THEN (CHOOSE e \in x.nz : e[1] = r /\ e[2] = c)[3]
            ELSE 0]]

\* -------------------------------------------------------------- DataLoader
\* The loader with the batch count rounded up instead of down: the last,
\* partial batch would be yielded too.
MutDataLoader(y, x, batch_size) ==
    [y |-> y, x |-> x, batch_size |-> batch_size, data_size |-> Len(y),
     num_batches |-> (Len(y) + batch_size - 1) \div batch_size, sparse |-> x.sparse]

\* DataLoader.__init__
DataLoader(y, x, batch_size) ==
    [y |-> y, x |-> x, batch_size |-> batch_size, data_size |-> Len(y),
     num_batches |-> Len(y) \div batch_size, sparse |-> x.sparse]

NoData == DataLoader(<<>>, DenseX(0, 0), 1)

\* A generator made by DataLoader.__iter__: "start" before its first next(),
\* "yielded" while suspended at the yield, "done" once the loop has ended.
NoIter == [pc |-> "none", i |-> 0, loc |-> 0, n |-> 0]
NewIter == [pc |-> "start", i |-> 0, loc |-> 0, n |-> 0]

\* The slices of line 69 and the densification of lines 70-71.
BatchAt(d, loc) ==
    LET by == PySlice(d.y, loc, loc + d.batch_size)
        bx == SliceRows(d.x, loc, loc + d.batch_size)
    IN  [y |-> by, x |-> IF d.sparse THEN ToArray(bx) ELSE bx.rows]

\* Resuming generator g: the first next() runs `loc = 0` and builds
\* range(self.num_batches); a later one runs `loc += self.batch_size` and
\* takes the next i of the range.
GenResume(d, g) ==
    IF g.pc = "start"
    THEN [g EXCEPT !.i = 0, !.loc = 0, !.n = d.num_batches]
    ELSE [g EXCEPT !.i = g.i + 1, !.loc = g.loc + d.batch_size]

GenYields(d, g) ==
    g.pc \in {"start", "yielded"} /\ GenResume(d, g).i < GenResume(d, g).n

GenNext(d, g) ==
    IF GenYields(d, g)
    THEN [GenResume(d, g) EXCEPT !.pc = "yielded"]
    ELSE [GenResume(d, g) EXCEPT !.pc = "done"]

GenValue(d, g) == BatchAt(d, GenResume(d, g).loc)

\* ------------------------------------------------------- symbolic values
NoBatch == [y |-> <<>>, x |-> <<>>]

\* The value of the local variable `step`: the `step` option (a scalar), or
\* the vector -learning_rate*diff that line 109 assigns to the same name.
OptionStep(v) ==
    [kind |-> "option", val |-> v, lr |-> 0, batch |-> NoBatch, at |-> 0, idx |-> 0]

UpdateStep(lr, g) ==
    [kind |-> "neg_lr_grad", val |-> 0, lr |-> lr, batch |-> g.batch, at |-> g.at,
     idx |-> 0]

NoStep == OptionStep(0)

\* Entry i of `step` when it is broadcast against a K x K matrix: a scalar
\* is the same in every column, a vector contributes its i-th entry.
StepEntry(s, i) == IF s.kind = "option" THEN s ELSE [s EXCEPT !.idx = i]

NoPert == [axis |-> 0, size |-> NoStep]

\* fn(par + pert, batch): the value of one of the compiled functions.
Eval(fn, par, bat, pert) ==
    [fn |-> fn, batch |-> bat, at |-> Len(par.hist), pert |-> pert]

NoEval == [fn |-> "none", batch |-> NoBatch, at |-> 0, pert |-> NoPert]

\* np.zeros(n), and `params += step`
Zeros(n) == [len |-> n, hist |-> <<>>]
AddStep(par, s) == [par EXCEPT !.hist = Append(@, s)]

NoHess == [kind |-> "none", terms |-> <<>>, rows |-> <<>>, num |-> 1, den |-> 1,
           div |-> NoStep]
NoSigma == [kind |-> "none", of |-> NoHess, den |-> 1]
NoRet == [kind |-> "none", beta |-> Zeros(0), sigma |-> NoSigma, names |-> <<>>]
NoCalls == [fg |-> 0, g |-> 0, h |-> 0, inv |-> 0, table |-> 0,
            fg_raised |-> 0, h_raised |-> 0, passes |-> 0]

Line(kind, e, sum, cnt, msg) ==
    [kind |-> kind, ep |-> e, sum |-> sum, cnt |-> cnt, msg |-> msg]

\* --------------------------------------------------------------------- glm
\* The names of the extra parameters and of the design-matrix columns.
ExtraNames(P) == [j \in 1..P |-> <<"extra", j>>]
ColNames(K) == [c \in 1..K |-> <<"col", c>>]

\* The positions (from 0) of par that `par[-K:]` reads, par of length n.
ModelReads(n, K) == PySliceFrom([j \in 1..n |-> j - 1], 0 - K)

\* np.dot(x, par[-K:]) with x of K columns raises unless K entries are read.
ShapeError(n, K) == Len(ModelReads(n, K)) # K

\* Whether an evaluation of the objective raises: always on a shape error,
\* otherwise as the objective decides.
RaiseChoices == IF ShapeError(params.len, arg.K) THEN {TRUE} ELSE BOOLEAN

Args ==
    [N : 0..MaxN, K : 0..MaxK, P : 0..MaxP, sparse : BOOLEAN,
     batch_size : 1..MaxB, epochs : 0..MaxEpochs, learning_rate : LearningRates,
     step : StepOptions, output : {"beta", "none"}, table : BOOLEAN]

\* design_matrices: the label vector and the covariate matrix of N records
\* and K columns.
YVec(a) == LabelVec(a.N)
XMat(a) == IF a.sparse THEN SparseX(a.N, a.K) ELSE DenseX(a.N, a.K)

Slots == 1..NumIters

Idle ==
    /\ it = NoIter
    /\ params = Zeros(0)
    /\ step = NoStep
    /\ diff = NoEval
    /\ ep = 0
    /\ agg_loss = <<>>
    /\ agg_batch = 0
    /\ hess = NoHess
    /\ hess_rows = <<>>
    /\ fd_diff = <<>>
    /\ sigma = NoSigma
    /\ reads = <<>>
    /\ x_names = <<>>
    /\ calls = NoCalls
    /\ stdout = <<>>
    /\ exc = "none"
    /\ ret = NoRet

Init ==
    /\ arg \in Args
    /\ data = NoData
    /\ iters = [k \in Slots |-> NoIter]
    /\ out = [k \in Slots |-> <<>>]
    /\ Idle
    /\ pc = "glm"

\* glm, lines 156-179, and maxlike, lines 82-96.
Glm ==
    /\ pc = "glm"
    /\ x_names' = ExtraNames(arg.P) \o ColNames(arg.K)
    /\ params' = Zeros(arg.P + arg.K)
    /\ data' = DataLoader(YVec(arg), XMat(arg), arg.batch_size)
    /\ step' = OptionStep(arg.step)
    /\ ep' = 0
    /\ pc' = "epoch"
    /\ UNCHANGED <<arg, iters, out, it, diff, agg_loss, agg_batch, hess, hess_rows,
                   fd_diff, sigma, reads, calls, stdout, exc, ret>>

\* maxlike, lines 99-104: an epoch begins.
EpochBegin ==
    /\ pc = "epoch"
    /\ ep < arg.epochs
    /\ agg_loss' = <<>>
    /\ agg_batch' = 0
    /\ it' = NewIter
    /\ pc' = "batch"
    /\ UNCHANGED <<arg, data, iters, out, params, step, diff, ep, hess, hess_rows,
                   fd_diff, sigma, reads, x_names, calls, stdout, exc, ret>>

\* maxlike, lines 104-118: the body of the training loop on the next batch.
\* (gain and move, lines 113-114, are computed and never used.)
TrainBatch ==
    /\ pc = "batch"
    /\ GenYields(data, it)
    /\ \E raise \in RaiseChoices :
        LET v == Eval("fg", params, GenValue(data, it), NoPert)
            s == UpdateStep(arg.learning_rate, v)
        IN  /\ it' = GenNext(data, it)
            /\ reads' = ModelReads(params.len, arg.K)
            /\ calls' = [calls EXCEPT !.fg = @ + 1,
                                      !.fg_raised = IF raise THEN @ + 1 ELSE @]
            /\ IF raise
               THEN /\ exc' = "ModelError"
                    /\ pc' = "raised"
                    /\ UNCHANGED <<params, step, diff, agg_loss, agg_batch>>
               ELSE /\ diff' = v
                    /\ step' = s
                    /\ params' = AddStep(params, s)
                    /\ agg_loss' = Append(agg_loss, v)
                    /\ agg_batch' = agg_batch + 1
                    /\ UNCHANGED <<exc, pc>>
    /\ UNCHANGED <<arg, data, iters, out, ep, hess, hess_rows, fd_diff, sigma,
                   x_names, stdout, ret>>

\* maxlike, lines 120-122: the batches are exhausted, the epoch is reported.
\* agg_loss/agg_batch is 0.0/0 when no batch was yielded: ZeroDivisionError.
EpochEnd ==
    /\ pc = "batch"
    /\ ~GenYields(data, it)
    /\ it' = GenNext(data, it)
    /\ calls' = [calls EXCEPT !.passes = @ + 1]
    /\ IF agg_batch = 0
       THEN /\ exc' = "ZeroDivisionError"
            /\ pc' = "raised"
            /\ UNCHANGED <<stdout, ep>>
       ELSE /\ stdout' = Append(stdout, Line("epoch", ep, agg_loss, agg_batch, "loss"))
            /\ ep' = ep + 1
            /\ pc' = "epoch"
            /\ UNCHANGED exc
    /\ UNCHANGED <<arg, data, iters, out, params, step, diff, agg_loss, agg_batch,
                   hess, hess_rows, fd_diff, sigma, reads, x_names, ret>>

\* maxlike, line 99: range(epochs) is exhausted.
TrainDone ==
    /\ pc = "epoch"
    /\ ep >= arg.epochs
    /\ pc' = "post"
    /\ UNCHANGED <<arg, data, iters, out, it, params, step, diff, ep, agg_loss,
                   agg_batch, hess, hess_rows, fd_diff, sigma, reads, x_names,
                   calls, stdout, exc, ret>>

\* maxlike, lines 125-126.
ReturnBeta ==
    /\ pc = "post"
    /\ arg.output = "beta"
    /\ sigma' = NoSigma
    /\ pc' = "glm_ret"
    /\ UNCHANGED <<arg, data, iters, out, it, params, step, diff, ep, agg_loss,
                   agg_batch, hess, hess_rows, fd_diff, reads, x_names, calls,
                   stdout, exc, ret>>

\* The Hessian pass entered whatever `output` is.
MutHessBegin ==
    /\ pc = "post"
    /\ hess' = [NoHess EXCEPT !.kind = "exact"]
    /\ it' = NewIter
    /\ pc' = "hess"
    /\ UNCHANGED <<arg, data, iters, out, params, step, diff, ep, agg_loss,
                   agg_batch, hess_rows, fd_diff, sigma, reads, x_names, calls,
                   stdout, exc, ret>>

\* maxlike, lines 128-131: the try block is entered.
HessBegin ==
    /\ pc = "post"
    /\ arg.output # "beta"
    /\ hess' = [NoHess EXCEPT !.kind = "exact"]
    /\ it' = NewIter
    /\ pc' = "hess"
    /\ UNCHANGED <<arg, data, iters, out, params, step, diff, ep, agg_loss,
                   agg_batch, hess_rows, fd_diff, sigma, reads, x_names, calls,
                   stdout, exc, ret>>

\* The Hessian pass without the try block: an error of h_fun propagates.
MutHessBatch ==
    /\ pc = "hess"
    /\ GenYields(data, it)
    /\ \E raise \in RaiseChoices :
        /\ it' = GenNext(data, it)
        /\ reads' = ModelReads(params.len, arg.K)
        /\ calls' = [calls EXCEPT !.h = @ + 1,
                                  !.h_raised = IF raise THEN @ + 1 ELSE @]
        /\ IF raise
           THEN /\ exc' = "ModelError"
                /\ pc' = "raised"
                /\ UNCHANGED hess
           ELSE /\ hess' = [hess EXCEPT !.terms =
                              Append(@, Eval("h", params, GenValue(data, it), NoPert))]
                /\ UNCHANGED <<exc, pc>>
    /\ UNCHANGED <<arg, data, iters, out, params, step, diff, ep, agg_loss,
                   agg_batch, hess_rows, fd_diff, sigma, x_names, stdout, ret>>

\* maxlike, lines 131-132 and 134: h_fun on the next batch; an error is caught.
HessBatch ==
    /\ pc = "hess"
    /\ GenYields(data, it)
    /\ \E raise \in RaiseChoices :
        /\ it' = GenNext(data, it)
        /\ reads' = ModelReads(params.len, arg.K)
        /\ calls' = [calls EXCEPT !.h = @ + 1,
                                  !.h_raised = IF raise THEN @ + 1 ELSE @]
        /\ IF raise
           THEN /\ exc' = "ModelError"
                /\ pc' = "except"
                /\ UNCHANGED hess
           ELSE /\ hess' = [hess EXCEPT !.terms =
                              Append(@, Eval("h", params, GenValue(data, it), NoPert))]
                /\ UNCHANGED <<exc, pc>>
    /\ UNCHANGED <<arg, data, iters, out, params, step, diff, ep, agg_loss,
                   agg_batch, hess_rows, fd_diff, sigma, x_names, stdout, ret>>

\* maxlike, lines 133-134: hess *= batch_size/N, inside the try block; with
\* N = 0 the division raises ZeroDivisionError, which the except clause catches.
HessScale ==
    /\ pc = "hess"
    /\ ~GenYields(data, it)
    /\ it' = GenNext(data, it)
    /\ IF Len(data.y) = 0
       THEN /\ exc' = "ZeroDivisionError"
            /\ pc' = "except"
            /\ UNCHANGED hess
       ELSE /\ hess' = [hess EXCEPT !.num = arg.batch_size, !.den = Len(data.y)]
            /\ pc' = "inv"
            /\ UNCHANGED exc
    /\ UNCHANGED <<arg, data, iters, out, params, step, diff, ep, agg_loss,
                   agg_batch, hess_rows, fd_diff, sigma, reads, x_names, calls,
                   stdout, ret>>

\* maxlike, lines 134-140: the except clause.
Fallback ==
    /\ pc = "except"
    /\ stdout' = stdout \o <<Line("error", 0, <<>>, 0, exc),
                             Line("fallback", 0, <<>>, 0,
                                  "Falling back to finite difference for hessian")>>
    /\ hess_rows' = [i \in 1..params.len |-> <<>>]
    /\ fd_diff' = [i \in 1..params.len |-> [axis |-> i, size |-> StepEntry(step, i)]]
    /\ it' = NewIter
    /\ exc' = "none"
    /\ pc' = "fd"
    /\ UNCHANGED <<arg, data, iters, out, params, step, diff, ep, agg_loss,
                   agg_batch, hess, sigma, reads, x_names, calls, ret>>

\* maxlike, lines 140-144: the finite-difference loop body on the next batch.
\* The g_fun call numbered failAt raises (0 is the unperturbed one); with
\* failAt = params.len + 1 none does.
FDBatch ==
    /\ pc = "fd"
    /\ GenYields(data, it)
    /\ \E failAt \in IF ShapeError(params.len, arg.K) THEN {0} ELSE 0..(params.len + 1) :
        LET bat == GenValue(data, it)
            g0_batch == Eval("g", params, bat, NoPert)
            done == IF failAt > params.len THEN params.len ELSE failAt - 1
        IN  /\ it' = GenNext(data, it)
            /\ reads' = ModelReads(params.len, arg.K)
            /\ calls' = [calls EXCEPT !.g = @ + Min(failAt, params.len) + 1]
            /\ hess_rows' =
                 [i \in 1..params.len |->
                    IF i <= done
                    THEN Append(hess_rows[i],
                                [plus |-> Eval("g", params, bat, fd_diff[i]),
                                 minus |-> g0_batch])
                    ELSE hess_rows[i]]
            /\ IF failAt <= params.len
               THEN exc' = "ModelError" /\ pc' = "raised"
               ELSE UNCHANGED <<exc, pc>>
    /\ UNCHANGED <<arg, data, iters, out, params, step, diff, ep, agg_loss,
                   agg_batch, hess, fd_diff, sigma, x_names, stdout, ret>>

\* maxlike, line 145: np.vstack(hess_rows)*(batch_size/N)/step. np.vstack of
\* an empty list raises ValueError; batch_size/N raises for N = 0; the
\* division is by the current value of `step`.
FDStack ==
    /\ pc = "fd"
    /\ ~GenYields(data, it)
    /\ it' = GenNext(data, it)
    /\ IF params.len = 0
       THEN exc' = "ValueError" /\ pc' = "raised" /\ UNCHANGED hess
       ELSE IF Len(data.y) = 0
       THEN exc' = "ZeroDivisionError" /\ pc' = "raised" /\ UNCHANGED hess
       ELSE /\ hess' = [kind |-> "fd", terms |-> <<>>, rows |-> hess_rows,
                        num |-> arg.batch_size, den |-> Len(data.y), div |-> step]
            /\ pc' = "inv"
            /\ UNCHANGED exc
    /\ UNCHANGED <<arg, data, iters, out, params, step, diff, ep, agg_loss,
                   agg_batch, hess_rows, fd_diff, sigma, reads, x_names, calls,
                   stdout, ret>>

\* The inversion inside the try block: its error is caught by the except
\* clause too.
MutInvert ==
    /\ pc = "inv"
    /\ calls' = [calls EXCEPT !.inv = @ + 1]
    /\ \E raise \in BOOLEAN :
        IF raise
        THEN exc' = "LinAlgError" /\ pc' = "except" /\ UNCHANGED sigma
        ELSE /\ sigma' = [kind |-> "inv", of |-> hess, den |-> Len(data.y)]
             /\ pc' = "glm_ret"
             /\ UNCHANGED exc
    /\ UNCHANGED <<arg, data, iters, out, it, params, step, diff, ep, agg_loss,
                   agg_batch, hess, hess_rows, fd_diff, reads, x_names, stdout, ret>>

\* maxlike, lines 148-151: the inversion, which raises or not on a singular
\* matrix as the array backend decides, and the return.
Invert ==
    /\ pc = "inv"
    /\ calls' = [calls EXCEPT !.inv = @ + 1]
    /\ \E raise \in BOOLEAN :
        IF raise
        THEN exc' = "LinAlgError" /\ pc' = "raised" /\ UNCHANGED sigma
        ELSE /\ sigma' = [kind |-> "inv", of |-> hess, den |-> Len(data.y)]
             /\ pc' = "glm_ret"
             /\ UNCHANGED exc
    /\ UNCHANGED <<arg, data, iters, out, it, params, step, diff, ep, agg_loss,
                   agg_batch, hess, hess_rows, fd_diff, reads, x_names, stdout, ret>>

\* summary.param_table: the report built from the estimates and the names.
ParamTable(beta, sg, names) ==
    [kind |-> "table", beta |-> beta, sigma |-> sg, names |-> names]

\* glm, lines 182-187.
GlmReturn ==
    /\ pc = "glm_ret"
    /\ IF arg.output = "beta"
       THEN /\ ret' = [kind |-> "beta", beta |-> params, sigma |-> NoSigma,
                       names |-> <<>>]
            /\ UNCHANGED calls
       ELSE IF arg.table
       THEN /\ ret' = ParamTable(params, sigma, x_names)
            /\ calls' = [calls EXCEPT !.table = @ + 1]
       ELSE /\ ret' = [kind |-> "pair", beta |-> params, sigma |-> sigma,
                       names |-> <<>>]
            /\ UNCHANGED calls
    /\ pc' = "done"
    /\ UNCHANGED <<arg, data, iters, out, it, params, step, diff, ep, agg_loss,
                   agg_batch, hess, hess_rows, fd_diff, sigma, reads, x_names,
                   stdout, exc>>

Next ==
    \/ Glm
    \/ EpochBegin
    \/ TrainBatch
    \/ EpochEnd
    \/ TrainDone
    \/ ReturnBeta
    \/ HessBegin
    \/ HessBatch
    \/ HessScale
    \/ Fallback
    \/ FDBatch
    \/ FDStack
    \/ Invert
    \/ GlmReturn

Spec == Init /\ [][Next]_vars

\* ------------------------------------------- the DataLoader on its own
InitDL ==
    /\ arg \in {a \in Args : /\ a.P = 0 /\ a.epochs = 0 /\ a.learning_rate = 1
                             /\ a.step = 1 /\ a.output = "none" /\ a.table = FALSE}
    /\ data = DataLoader(YVec(arg), XMat(arg), arg.batch_size)
    /\ iters = [k \in Slots |-> NoIter]
    /\ out = [k \in Slots |-> <<>>]
    /\ Idle
    /\ pc = "idle"

\* iter(data): a new generator in slot k, replacing the one that was there.
DLIter(k) ==
    /\ iters' = [iters EXCEPT ![k] = NewIter]
    /\ out' = [out EXCEPT ![k] = <<>>]
    /\ UNCHANGED <<arg, data>>
    /\ UNCHANGED mlvars

\* next() with the offset kept on the instance instead of in the generator:
\* advancing one generator moves the offset of every suspended one.
MutDLNext(k) ==
    /\ iters[k].pc \in {"start", "yielded"}
    /\ iters' = [j \in Slots |->
                   IF j = k THEN GenNext(data, iters[k])
                   ELSE IF iters[j].pc = "yielded"
                   THEN [iters[j] EXCEPT !.loc = @ + data.batch_size]
                   ELSE iters[j]]
    /\ out' = [out EXCEPT ![k] = IF GenYields(data, iters[k])
                                 THEN Append(@, GenValue(data, iters[k]))
                                 ELSE @]
    /\ UNCHANGED <<arg, data>>
    /\ UNCHANGED mlvars

\* next() on the generator in slot k.
DLNext(k) ==
    /\ iters[k].pc \in {"start", "yielded"}
    /\ iters' = [iters EXCEPT ![k] = GenNext(data, iters[k])]
    /\ out' = [out EXCEPT ![k] = IF GenYields(data, iters[k])
                                 THEN Append(@, GenValue(data, iters[k]))
                                 ELSE @]
    /\ UNCHANGED <<arg, data>>
    /\ UNCHANGED mlvars

NextDL == \E k \in Slots : DLIter(k) \/ DLNext(k)

SpecDL == InitDL /\ [][NextDL]_vars

\* =================================================================== claims
N == arg.N
B == arg.batch_size
NumFull == N \div B

RECURSIVE Concat(_)
Concat(ss) == IF ss = <<>> THEN <<>> ELSE Head(ss) \o Concat(Tail(ss))

Range(f) == {f[i] : i \in DOMAIN f}

\* Batch i (from 1) as the records of the original arrays.
RecordsOf(i) ==
    [y |-> SubSeq(LabelVec(N), (i - 1) * B + 1, i * B),
     x |-> SubSeq(DenseMat(N, arg.K), (i - 1) * B + 1, i * B)]

\* C1: one iteration of the DataLoader yields exactly floor(N/B) batches;
\* batch i holds records i*B .. i*B+B-1 of labels and covariates in order,
\* the batches concatenate to the first floor(N/B)*B records, and no
\* trailing record (the last N mod B) is in any batch.
C1_FullBatchesInOrder ==
    \A k \in Slots :
        /\ Len(out[k]) <= NumFull
        /\ \A i \in 1..Len(out[k]) : out[k][i] = RecordsOf(i)
        /\ iters[k].pc = "done" =>
            /\ Len(out[k]) = NumFull
            /\ Concat([i \in 1..Len(out[k]) |-> out[k][i].y])
                 = SubSeq(LabelVec(N), 1, NumFull * B)
            /\ Concat([i \in 1..Len(out[k]) |-> out[k][i].x])
                 = SubSeq(DenseMat(N, arg.K), 1, NumFull * B)
            /\ \A r \in (NumFull * B + 1)..N, i \in 1..Len(out[k]) :
                 /\ r \notin Range(out[k][i].y)
                 /\ DenseRow(r, arg.K) \notin Range(out[k][i].x) \/ arg.K = 0

\* A complete pass over a sparse dataset that B does not divide, of two batches.
C1_Witness ==
    /\ iters[1].pc = "done"
    /\ Len(out[1]) = 2
    /\ N % B # 0
    /\ arg.sparse
    /\ arg.K = MaxK

\* C7: every iteration of the same DataLoader instance yields the same
\* sequence of batches, whatever the other iterations of the instance have
\* done (completed, stopped part-way or still running), and no iteration
\* changes the fields of the instance.
C7_SamePasses ==
    /\ data = DataLoader(YVec(arg), XMat(arg), arg.batch_size)
    /\ \A j, k \in Slots :
        /\ \A i \in 1..Min(Len(out[j]), Len(out[k])) : out[j][i] = out[k][i]
        /\ (iters[j].pc = "done" /\ iters[k].pc = "done") => out[j] = out[k]

\* Generator 2 has completed a pass of two batches while generator 1 is
\* suspended after its first batch.
C7_Witness ==
    /\ iters[1].pc = "yielded"
    /\ Len(out[1]) = 1
    /\ iters[2].pc = "done"
    /\ Len(out[2]) = 2

\* ------------------------------------------------------ maxlike and glm
EpochLines == SelectSeq(stdout, LAMBDA l : l.kind = "epoch")
NoticeLines == SelectSeq(stdout, LAMBDA l : l.kind = "fallback")
HasNotice == NoticeLines # <<>>

\* Training has ended: by leaving the loop or by an exception.
TrainingOver == pc \notin {"glm", "epoch", "batch"}

\* C2: in the finite-difference fallback the perturbation of dimension i is
\* the configured `step` option along axis i only, and the accumulated
\* matrix is divided by that same configured value, however much training
\* came before.
C2_StepIsTheOption ==
    /\ \A i \in 1..Len(fd_diff) :
        /\ fd_diff[i].axis = i
        /\ fd_diff[i].size = OptionStep(arg.step)
    /\ \A i \in 1..Len(hess_rows) : \A j \in 1..Len(hess_rows[i]) :
        hess_rows[i][j].plus.pert = [axis |-> i, size |-> OptionStep(arg.step)]
    /\ hess.kind = "fd" => hess.div = OptionStep(arg.step)

\* The exact Hessian evaluation raised on some batch.
HRaised == calls.h_raised > 0

\* The scaling `hess *= batch_size/N` of the try block raised (N = 0).
ScaleRaised == Len(data.y) = 0 /\ hess.kind = "exact" /\ pc # "hess"

\* C3 as stated: an error of the exact Hessian evaluation is not propagated
\* but followed by the error message, the fallback notice, the finite
\* differences and the return of a pair; the notice is emitted if and only
\* if the exact Hessian evaluation raised, and before any finite-difference
\* gradient evaluation.
C3_NoticeIffHessianRaised ==
    /\ HasNotice => HRaised
    /\ (HRaised /\ pc # "except") => HasNotice
    /\ calls.g > 0 => HasNotice
    /\ (HRaised /\ pc = "raised") => calls.g + calls.inv > 0 \/ exc = "ValueError"
    /\ (HRaised /\ pc = "done") =>
         ret.kind \in {"pair", "table"} /\ ret.sigma.of.kind = "fd"

\* C3 as amended: the same, with the notice emitted if and only if an error
\* was raised inside the try block: by the exact Hessian evaluation on some
\* batch or by the scaling by batch_size/N when N = 0. An error of the
\* Hessian evaluation never propagates; the run then ends with a
\* (parameters, covariance) pair built from the finite-difference Hessian
\* unless a later step raises.
C3_NoticeIffTryRaised ==
    /\ HasNotice <=> ((HRaised \/ ScaleRaised) /\ pc # "except")
    /\ Len(NoticeLines) <= 1
    /\ \A j \in 1..Len(stdout) :
         stdout[j].kind = "fallback" =>
            j > 1 /\ stdout[j - 1].kind = "error"
                  /\ stdout[j - 1].msg \in {"ModelError", "ZeroDivisionError"}
    /\ calls.g > 0 => HasNotice
    /\ calls.h_raised <= 1
    /\ (HRaised /\ pc = "raised") => calls.g + calls.inv > 0 \/ exc = "ValueError"
    /\ (HRaised /\ pc = "raised" /\ exc = "ModelError") => calls.g > 0
    /\ (HRaised /\ pc \in {"glm_ret", "done"}) =>
         /\ sigma.kind = "inv"
         /\ sigma.of.kind = "fd"
         /\ Len(sigma.of.rows) = params.len
    /\ (HRaised /\ pc = "done") =>
         ret.kind \in {"pair", "table"} /\ ret.sigma = sigma /\ ret.beta = params

\* h_fun raised on the second batch of the Hessian pass and the run returned
\* a pair.
C3_Witness ==
    /\ pc = "done"
    /\ calls.h = 2
    /\ calls.h_raised = 1
    /\ ret.kind = "pair"
    /\ ret.sigma.of.kind = "fd"

\* C4: with output = 'beta' no exact-Hessian evaluation, finite-difference
\* gradient evaluation, fallback notice or inversion ever happens; maxlike
\* returns (parameters, None) straight after the last epoch, and glm returns
\* the bare parameter vector, of length len(extra) + K, whatever `table` is.
C4_BetaOnly ==
    arg.output = "beta" =>
        /\ calls.h = 0 /\ calls.g = 0 /\ calls.inv = 0 /\ calls.table = 0
        /\ ~HasNotice
        /\ hess = NoHess /\ sigma = NoSigma
        /\ pc \in {"glm", "epoch", "batch", "post", "glm_ret", "done", "raised"}
        /\ pc \in {"post", "glm_ret", "done"} =>
             ep = arg.epochs /\ Len(EpochLines) = arg.epochs
        /\ pc = "done" =>
             /\ ret.kind = "beta"
             /\ ret.beta = params
             /\ ret.beta.len = arg.P + arg.K
             /\ Len(ret.beta.hist) = arg.epochs * NumFull

\* glm returned the trained parameters alone although table was set.
C4_Witness ==
    /\ pc = "done"
    /\ arg.output = "beta"
    /\ arg.table
    /\ arg.P = 1
    /\ Len(params.hist) >= 2
    /\ ret.kind = "beta"

\* The batches of one pass, as steps of the given learning rate taken from
\* parameters that `before` updates have been applied to.
PassSteps(before) ==
    [i \in 1..NumFull |->
        [kind |-> "neg_lr_grad", val |-> 0, lr |-> arg.learning_rate,
         batch |-> RecordsOf(i), at |-> before + i - 1, idx |-> 0]]

\* C5: training performs exactly `epochs` full passes with no early exit;
\* in each pass every batch is processed once, in yield order, with the
\* gradient taken at the current parameters and the parameters replaced by
\* parameters - learning_rate * gradient, so that epochs * floor(N/B)
\* updates are made. (A run in which the objective itself raised is left
\* out.)
C5_ExactlyEpochsPasses ==
    /\ (TrainingOver /\ calls.fg_raised = 0) =>
         /\ calls.passes = arg.epochs
         /\ Len(params.hist) = arg.epochs * NumFull
    /\ \A j \in 1..Len(params.hist) :
         params.hist[j] = PassSteps(((j - 1) \div NumFull) * NumFull)[((j - 1) % NumFull) + 1]

\* C6: for every N >= 0, B >= 1 and epochs >= 0 every epoch completes and
\* emits exactly one progress line, with the epoch index and the mean loss
\* of the batches of that epoch, so `epochs` lines precede the
\* post-training stage.
C6_OneLinePerEpoch ==
    /\ Len(EpochLines) = calls.passes
    /\ \A i \in 1..Len(EpochLines) :
         /\ EpochLines[i].ep = i - 1
         /\ EpochLines[i].cnt = NumFull
         /\ Len(EpochLines[i].sum) = NumFull
    /\ (TrainingOver /\ calls.fg_raised = 0) => Len(EpochLines) = arg.epochs

\* C8: the fallback is the only recovery: an error of the inversion, of a
\* training gradient or of a finite-difference gradient propagates, with no
\* retry and no result, and an inversion or training error never enters the
\* fallback or emits its notice.
C8_OnlyOneRecovery ==
    /\ pc = "raised" => (exc # "none" /\ ret = NoRet /\ ~ENABLED Next)
    /\ pc = "except" => (hess.kind = "exact" /\ calls.inv = 0 /\ calls.g = 0
                         /\ calls.fg_raised = 0 /\ ~HasNotice)
    /\ calls.fg_raised > 0 =>
         (pc = "raised" /\ exc = "ModelError" /\ hess = NoHess /\ ~HasNotice
          /\ calls.fg_raised = 1 /\ calls.h + calls.g + calls.inv = 0)
    /\ exc = "LinAlgError" =>
         (pc = "raised" /\ calls.inv = 1
          /\ (HasNotice <=> hess.kind = "fd") /\ Len(NoticeLines) <= 1)
    /\ calls.inv <= 1
    /\ Len(NoticeLines) <= 1
    /\ pc \in {"glm_ret", "done"} => exc = "none"

\* The inversion of the exact Hessian raised and the error propagated.
C8_Witness ==
    /\ pc = "raised"
    /\ exc = "LinAlgError"
    /\ hess.kind = "exact"
    /\ Len(hess.terms) = 2
    /\ ~HasNotice

\* A finite-difference gradient evaluation raised inside the fallback.
C8_WitnessFD ==
    /\ pc = "raised"
    /\ exc = "ModelError"
    /\ calls.g > 2
    /\ HasNotice

\* C9: on the exact path the aggregate Hessian is the sum of the per-batch
\* Hessians of one pass times batch_size/N, and the weights of the yielded
\* batches sum to exactly 1: floor(N/B) * B / N = 1 whenever N >= B >= 1.
C9_WeightsSumToOne ==
    (hess.kind = "exact" /\ N >= B
       /\ (pc \in {"inv", "glm_ret", "done"} \/ exc = "LinAlgError")) =>
        /\ Len(hess.terms) = NumFull
        /\ \A i \in 1..Len(hess.terms) :
             hess.terms[i] = Eval("h", params, RecordsOf(i), NoPert)
        /\ hess.num = B /\ hess.den = N
        /\ Len(hess.terms) * hess.num = hess.den

\* C10: glm's parameter vector has length P+K and starts at zero; the
\* linear predictor reads exactly the K entries at positions P .. P+K-1 and
\* never an extra parameter; the name list has length P+K, the extra names
\* first.
C10_CoefficientsAreLastK ==
    pc # "glm" =>
        /\ params.len = arg.P + arg.K
        /\ Len(x_names) = arg.P + arg.K
        /\ \A j \in 1..arg.P : x_names[j] = <<"extra", j>>
        /\ \A c \in 1..arg.K : x_names[arg.P + c] = <<"col", c>>
        /\ calls.fg + calls.g + calls.h > 0 =>
             reads = [c \in 1..arg.K |-> arg.P + c - 1]

\* ------------------------------------------- where the failing claims hold
\* Without a training update (epochs = 0 or N < B) `step` is still the option.
C2_HoldsWithoutTraining == Len(params.hist) = 0 => C2_StepIsTheOption

\* With at least one batch per pass, or at most one epoch.
C5_HoldsWithBatches == (N >= B \/ arg.epochs <= 1) => C5_ExactlyEpochsPasses

\* With at least one batch per pass, or no epoch at all.
C6_HoldsWithBatches == (N >= B \/ arg.epochs = 0) => C6_OneLinePerEpoch

\* When the batch size divides the dataset size.
C9_HoldsWhenBDividesN == N % B = 0 => C9_WeightsSumToOne

\* With at least one design-matrix column, or no extra parameter.
C10_HoldsWithColumns == (arg.K >= 1 \/ arg.P = 0) => C10_CoefficientsAreLastK

====
